---- MODULE Spec2Model ----
(***************************************************************************)
(* Model of the browser client of Videoteka (src/app.js): the cart and     *)
(* bookmark lists mirrored from the server, the request helper, the        *)
(* registration and login forms and the movie listing.                     *)
(*                                                                         *)
(* JavaScript runs one handler at a time: a handler runs from its start    *)
(* (or from the arrival of the response it awaits) to its next await or    *)
(* its end without interruption, so each such stretch is one action.       *)
(***************************************************************************)
EXTENDS Integers, Sequences, FiniteSets, TLC

(***************************************************************************)
(* Bounds of the model.                                                    *)
(***************************************************************************)
\* films of the catalogue served by /films/all
NumFilms == 2
\* clicks on cart and bookmark buttons and changes of the sort order in one visit
\* of the page
MaxClicks == 2
\* toggle requests awaiting their response at the same time
MaxPending == 2

(***************************************************************************)
(* JavaScript values.  A value keeps its type: the number 1 and the string *)
(* "1" are different values with the same String() text.                   *)
(***************************************************************************)
JStr(s) == [t |-> "string", s |-> s, n |-> 0]
JNum(n) == [t |-> "number", s |-> "", n |-> n]
JNull == [t |-> "null", s |-> "", n |-> 0]
JUndefined == [t |-> "undefined", s |-> "", n |-> 0]

\* String(v)
String(v) ==
    CASE v.t = "string" -> v.s
      [] v.t = "number" -> ToString(v.n)
      [] v.t = "null" -> "null"
      [] OTHER -> "undefined"

\* the truthiness that || and if (...) test
Truthy(v) ==
    CASE v.t = "string" -> v.s # ""
      [] v.t = "number" -> v.n # 0
      [] OTHER -> FALSE

\* a || b
OrElse(a, b) == IF Truthy(a) THEN a ELSE b

Kinds == {"cart", "bookmarks"}

(***************************************************************************)
(* The catalogue and what the server holds for it.  Film 1 has no author   *)
(* and the price 0, the other films have both.                             *)
(***************************************************************************)
FilmIds == 1..NumFilms

Film(n) ==
    [id |-> JNum(n),
     flim_id |-> JUndefined,
     title |-> JStr("T" \o ToString(n)),
     title_ru |-> JUndefined,
     author |-> IF n = 1 THEN JUndefined ELSE JStr("A" \o ToString(n)),
     price |-> IF n = 1 THEN JNum(0) ELSE JNum(10 * n),
     movie_base64 |-> IF n = 2 THEN JStr("QQ") ELSE JUndefined]

\* an element of the body of GET /cart and GET /bookmarks
ServerRow(n) ==
    [movie_id |-> Film(n).id, title |-> Film(n).title,
     author |-> Film(n).author, price |-> Film(n).price]

RECURSIVE SeqsNoDup(_, _)
\* the sequences without repetition of at most len elements of S
SeqsNoDup(S, len) ==
    IF len = 0 THEN {<<>>}
    ELSE LET shorter == SeqsNoDup(S, len - 1)
         IN shorter \cup
            {Append(q, x) : <<q, x>> \in
                {<<q, x>> \in shorter \X S : \A i \in 1..Len(q) : q[i] # x}}

\* the lists the server may hold for a collection (other sessions change it):
\* nothing, or all the films in any order
ServerLists ==
    {[i \in 1..Len(q) |-> ServerRow(q[i])] :
        q \in {q \in SeqsNoDup(FilmIds, NumFilms) : Len(q) \in {0, NumFilms}}}

(***************************************************************************)
(* Texts character by character.  The operations of JavaScript on strings  *)
(* that look into a text (parseFloat, toLowerCase, <) are computed on the  *)
(* sequence of its characters; Spelling lists the texts of the model.      *)
(***************************************************************************)
Digit == <<"0", "1", "2", "3", "4", "5", "6", "7", "8", "9">>

RECURSIVE Digits(_)
\* the characters of String(n), for a natural number n
Digits(n) ==
    IF n < 10 THEN <<Digit[n + 1]>>
    ELSE Digits(n \div 10) \o <<Digit[(n % 10) + 1]>>

\* the characters of the titles of the static table, of other titles and of payloads
ImageSpelling ==
    {<<"The Dark Knight", <<"T", "h", "e", " ", "D", "a", "r", "k", " ", "K", "n", "i", "g", "h", "t">>>>,
     <<"Gladiator", <<"G", "l", "a", "d", "i", "a", "t", "o", "r">>>>,
     <<"Mad Max: Fury Road", <<"M", "a", "d", " ", "M", "a", "x", ":", " ", "F", "u", "r", "y", " ", "R", "o", "a", "d">>>>,
     <<"Forrest Gump", <<"F", "o", "r", "r", "e", "s", "t", " ", "G", "u", "m", "p">>>>,
     <<"Fight Club", <<"F", "i", "g", "h", "t", " ", "C", "l", "u", "b">>>>,
     <<"Alien", <<"A", "l", "i", "e", "n">>>>,
     <<"Conjuring", <<"C", "o", "n", "j", "u", "r", "i", "n", "g">>>>,
     <<"Conjuring 2", <<"C", "o", "n", "j", "u", "r", "i", "n", "g", " ", "2">>>>,
     <<"Inception", <<"I", "n", "c", "e", "p", "t", "i", "o", "n">>>>,
     <<"The Matrix", <<"T", "h", "e", " ", "M", "a", "t", "r", "i", "x">>>>,
     <<"Interstellar", <<"I", "n", "t", "e", "r", "s", "t", "e", "l", "l", "a", "r">>>>,
     <<"Lord of the Rings: The Return of the King", <<"L", "o", "r", "d", " ", "o", "f", " ", "t", "h", "e", " ", "R", "i", "n", "g", "s", ":", " ", "T", "h", "e", " ", "R", "e", "t", "u", "r", "n", " ", "o", "f", " ", "t", "h", "e", " ", "K", "i", "n", "g">>>>,
     <<"Amelie", <<"A", "m", "e", "l", "i", "e">>>>,
     <<"The Shawshank Redemption", <<"T", "h", "e", " ", "S", "h", "a", "w", "s", "h", "a", "n", "k", " ", "R", "e", "d", "e", "m", "p", "t", "i", "o", "n">>>>,
     <<"Star Wars", <<"S", "t", "a", "r", " ", "W", "a", "r", "s">>>>,
     <<"alien", <<"a", "l", "i", "e", "n">>>>,
     <<"THE MATRIX", <<"T", "H", "E", " ", "M", "A", "T", "R", "I", "X">>>>,
     <<"star wars", <<"s", "t", "a", "r", " ", "w", "a", "r", "s">>>>,
     <<"Unknown", <<"U", "n", "k", "n", "o", "w", "n">>>>,
     <<"constructor", <<"c", "o", "n", "s", "t", "r", "u", "c", "t", "o", "r">>>>,
     <<"toString", <<"t", "o", "S", "t", "r", "i", "n", "g">>>>, <<"QQ", <<"Q", "Q">>>>,
     <<"data:image/png;base64,QQ", <<"d", "a", "t", "a", ":", "i", "m", "a", "g", "e", "/", "p", "n", "g", ";", "b", "a", "s", "e", "6", "4", ",", "Q", "Q">>>>,
     <<"data:image/", <<"d", "a", "t", "a", ":", "i", "m", "a", "g", "e", "/">>>>,
     <<"data:text/plain,QQ", <<"d", "a", "t", "a", ":", "t", "e", "x", "t", "/", "p", "l", "a", "i", "n", ",", "Q", "Q">>>>,
     <<"data", <<"d", "a", "t", "a">>>>}

Spelling ==
    ImageSpelling
    \cup {<<"T" \o ToString(n), <<"T">> \o Digits(n)>> : n \in FilmIds}
    \cup {<<"A" \o ToString(n), <<"A">> \o Digits(n)>> : n \in FilmIds}
    \cup {<<"A", <<"A">> >>, <<"B", <<"B">> >>, <<"a", <<"a">> >>, <<"b", <<"b">> >>,
          <<"5", <<"5">> >>, <<"20", <<"2", "0">> >>, <<" 7", <<" ", "7">> >>,
          <<"abc", <<"a", "b", "c">> >>}

\* the characters of String(v)
Chars(v) ==
    CASE v.t = "number" -> Digits(v.n)
      [] v.t = "string" /\ v.s = "" -> <<>>
      [] v.t = "string" -> (CHOOSE p \in Spelling : p[1] = v.s)[2]
      [] v.t = "null" -> <<"n", "u", "l", "l">>
      [] OTHER -> <<"u", "n", "d", "e", "f", "i", "n", "e", "d">>

\* the UTF-16 code of a character
CharCode(c) ==
    CASE c = " " -> 32
      [] c \in {Digit[i] : i \in 1..10} ->
            47 + (CHOOSE i \in 1..10 : Digit[i] = c)
      [] c = "A" -> 65 [] c = "B" -> 66 [] c = "T" -> 84
      [] c = "a" -> 97 [] c = "b" -> 98 [] c = "c" -> 99 [] c = "d" -> 100
      [] c = "e" -> 101 [] c = "f" -> 102 [] c = "i" -> 105 [] c = "l" -> 108
      [] c = "n" -> 110 [] c = "t" -> 116 [] c = "u" -> 117

UpperCase ==
    <<"A", "B", "C", "D", "E", "F", "G", "H", "I", "J", "K", "L", "M",
      "N", "O", "P", "Q", "R", "S", "T", "U", "V", "W", "X", "Y", "Z">>

LowerCase ==
    <<"a", "b", "c", "d", "e", "f", "g", "h", "i", "j", "k", "l", "m",
      "n", "o", "p", "q", "r", "s", "t", "u", "v", "w", "x", "y", "z">>

\* the text as it is, upper case kept
keepCase(chars) == chars

\* String.prototype.toLowerCase
toLowerCase(chars) ==
    [i \in 1..Len(chars) |->
        IF \E k \in 1..Len(UpperCase) : UpperCase[k] = chars[i]
        THEN LowerCase[CHOOSE k \in 1..Len(UpperCase) : UpperCase[k] = chars[i]]
        ELSE chars[i]]

RECURSIVE LessThan(_, _)
\* x < y on strings: by the code of the first character that differs
LessThan(x, y) ==
    CASE y = <<>> -> FALSE
      [] x = <<>> -> TRUE
      [] CharCode(Head(x)) # CharCode(Head(y)) -> CharCode(Head(x)) < CharCode(Head(y))
      [] OTHER -> LessThan(Tail(x), Tail(y))

RECURSIVE DigitsValue(_, _)
\* the number the leading digits of chars spell, after the digits read so far
DigitsValue(chars, sofar) ==
    IF chars # <<>> /\ Head(chars) \in {Digit[i] : i \in 1..10}
    THEN DigitsValue(Tail(chars), 10 * sofar + (CharCode(Head(chars)) - 48))
    ELSE sofar

RECURSIVE SkipSpaces(_)
SkipSpaces(chars) ==
    IF chars # <<>> /\ Head(chars) = " " THEN SkipSpaces(Tail(chars)) ELSE chars

\* parseFloat(text) for texts without sign, fraction or exponent: the leading
\* white space is skipped and the leading digits are read; NaN without a digit
parseFloat(chars) ==
    LET rest == SkipSpaces(chars)
    IN IF rest # <<>> /\ Head(rest) \in {Digit[i] : i \in 1..10}
       THEN [nan |-> FALSE, n |-> DigitsValue(rest, 0)]
       ELSE [nan |-> TRUE, n |-> 0]

\* a ?? b
Nullish(a, b) == IF a.t \in {"null", "undefined"} THEN b ELSE a

\* the comparator of sortFilms: negative, zero or positive
compare(a, b, field) ==
    LET valA == Nullish(a[field], JStr(""))
        valB == Nullish(b[field], JStr(""))
        \* parseFloat(val) || 0
        numA == IF parseFloat(Chars(valA)).nan THEN 0 ELSE parseFloat(Chars(valA)).n
        numB == IF parseFloat(Chars(valB)).nan THEN 0 ELSE parseFloat(Chars(valB)).n
        lowA == toLowerCase(Chars(valA))
        lowB == toLowerCase(Chars(valB))
    IN IF field = "price" THEN numA - numB
       ELSE CASE LessThan(lowA, lowB) -> -1
              [] LessThan(lowB, lowA) -> 1
              [] OTHER -> 0

\* x put into the sorted list after the elements that do not come after it
Insert(sorted, x, field) ==
    LET before == {i \in 1..Len(sorted) : compare(sorted[i], x, field) <= 0}
        k == Cardinality({i \in 1..Len(sorted) : \A j \in 1..i : j \in before})
    IN SubSeq(sorted, 1, k) \o <<x>> \o SubSeq(sorted, k + 1, Len(sorted))

RECURSIVE ArraySort(_, _)
\* Array.prototype.sort with the comparator: a stable sort
ArraySort(list, field) ==
    IF list = <<>> THEN <<>>
    ELSE Insert(ArraySort(SubSeq(list, 1, Len(list) - 1), field), list[Len(list)], field)

\* films.sort(...) without the copy: the array given is the array sorted
sortFilmsInPlace(films, field) ==
    [returned |-> ArraySort(films, field), films |-> ArraySort(films, field)]

\* a copy of the array in the order it has
sortFilmsKeepsOrder(films, field) == [returned |-> films, films |-> films]

\* sortFilms(films, field): the array it returns, and the array it was given as the
\* call leaves it
sortFilms(films, field) ==
    [returned |-> ArraySort(films, field), films |-> films]

SortFields == {"price", "title", "author"}

(***************************************************************************)
(* Response bodies and JSON.  A body is empty, the JSON text of a value,   *)
(* or text that is not JSON.  A parsed value is an object (of which the    *)
(* fields detail, message and access_token are kept) or an array.          *)
(***************************************************************************)
JObject(detail, message, access_token) ==
    [type |-> "object", detail |-> detail, message |-> message,
     access_token |-> access_token, rows |-> <<>>]
JArray(rows) ==
    [type |-> "array", detail |-> JUndefined, message |-> JUndefined,
     access_token |-> JUndefined, rows |-> rows]
EmptyObject == JObject(JUndefined, JUndefined, JUndefined)

BodyEmpty == [form |-> "empty", value |-> EmptyObject, raw |-> ""]
BodyJson(value) == [form |-> "json", value |-> value, raw |-> ""]
BodyRaw(raw) == [form |-> "raw", value |-> EmptyObject, raw |-> raw]

\* JSON.stringify of a value that is not a string
JsonStringify(v) ==
    CASE v.t = "number" -> ToString(v.n)
      [] v.t = "null" -> "null"
      [] OTHER -> "\"" \o v.s \o "\""

\* a response of the server, or the failure of the transport
HttpResponse(ok, text) == [transport |-> "ok", ok |-> ok, text |-> text, error |-> ""]
TransportFailure == [transport |-> "failed", ok |-> FALSE, text |-> BodyEmpty,
                     error |-> "Failed to fetch"]

GenericRequestError == "Oshibka zaprosa"

\* the outcome of apiRequest: the parsed body, or the message of the error thrown
Returned(data) == [threw |-> FALSE, message |-> "", data |-> data]
Thrown(message) == [threw |-> TRUE, message |-> message, data |-> EmptyObject]

\* apiRequest without its test of res.ok
apiRequestIgnoresStatus(res) ==
    IF res.transport # "ok" THEN Thrown(res.error)
    ELSE Returned(CASE res.text.form = "empty" -> EmptyObject
                    [] res.text.form = "json" -> res.text.value
                    [] OTHER -> JObject(JStr(res.text.raw), JUndefined, JUndefined))

\* apiRequest without the catch around JSON.parse
apiRequestStrictParse(res) ==
    IF res.transport # "ok" THEN Thrown(res.error)
    ELSE IF res.text.form = "raw" THEN Thrown("Unexpected token in JSON")
    ELSE LET data == IF res.text.form = "empty" THEN EmptyObject ELSE res.text.value
             message == OrElse(OrElse(data.detail, data.message),
                               JStr(GenericRequestError))
         IN IF ~res.ok
            THEN Thrown(IF message.t = "string" THEN message.s
                        ELSE JsonStringify(message))
            ELSE Returned(data)

apiRequest(res) ==
    IF res.transport # "ok" THEN Thrown(res.error)
    ELSE LET text == res.text
             data == CASE text.form = "empty" -> EmptyObject
                       [] text.form = "json" -> text.value
                       [] OTHER -> JObject(JStr(text.raw), JUndefined, JUndefined)
             message == OrElse(OrElse(data.detail, data.message),
                               JStr(GenericRequestError))
         IN IF ~res.ok
            THEN Thrown(IF message.t = "string" THEN message.s
                        ELSE JsonStringify(message))
            ELSE Returned(data)

\* the responses a POST or DELETE of a toggle may get
ToggleResponses ==
    {HttpResponse(TRUE, BodyEmpty),
     HttpResponse(FALSE, BodyJson(JObject(JStr("Not authenticated"), JUndefined, JUndefined))),
     TransportFailure}

\* the responses GET /cart and GET /bookmarks may get
FetchResponses ==
    {HttpResponse(TRUE, BodyJson(JArray(rows))) : rows \in ServerLists}
    \cup {HttpResponse(TRUE, BodyEmpty),
          HttpResponse(FALSE, BodyJson(JObject(JStr("Not authenticated"), JUndefined, JUndefined))),
          TransportFailure}

(***************************************************************************)
(* Local storage: a key is absent (getItem gives null) or holds a text.    *)
(* The lists stored are lists of objects of strings, numbers and null, on  *)
(* which JSON.parse gives back what JSON.stringify was given.              *)
(***************************************************************************)
NoItem == [present |-> FALSE, value |-> <<>>]
JSONstringify(list) == [present |-> TRUE, value |-> list]
\* JSON.parse(localStorage.getItem(key)) || []
ParseOrEmpty(item) == IF item.present THEN item.value ELSE <<>>
\* the key token holds the token itself
NoToken == [present |-> FALSE, value |-> ""]
Item(s) == [present |-> TRUE, value |-> s]

(***************************************************************************)
(* The document.  A movie card carries its data-id attribute (null when    *)
(* the card has none), the texts the click handler reads back, and the     *)
(* glyphs of its two buttons.  The cards of the page are those of the      *)
(* "all movies" section, then those of the "random movies" section, then   *)
(* the cards the markup of the page holds outside the two sections.        *)
(***************************************************************************)
GlyphRemove == "trash"
GlyphCart == "cart"
GlyphBookmark == "tag"
DefaultGlyph(kind) == IF kind = "cart" THEN GlyphCart ELSE GlyphBookmark

(***************************************************************************)
(* The image of a card.                                                    *)
(***************************************************************************)
\* String.prototype.startsWith
startsWith(chars, prefix) ==
    /\ Len(chars) >= Len(prefix)
    /\ SubSeq(chars, 1, Len(prefix)) = prefix

DataImagePrefix == <<"d", "a", "t", "a", ":", "i", "m", "a", "g", "e", "/">>

DefaultPrefix ==
    <<"d", "a", "t", "a", ":", "i", "m", "a", "g", "e", "/", "j", "p", "e", "g", ";">>
    \o <<"b", "a", "s", "e", "6", "4", ",">>

\* an image source: a path of the site, a data URI given by its characters, or
\* the function that a property inherited from Object.prototype holds
StaticSrc(path) == [t |-> "path", path |-> path, chars |-> <<>>]

DataSrc(chars) == [t |-> "data", path |-> "", chars |-> chars]

InheritedSrc(name) == [t |-> "function", path |-> name, chars |-> <<>>]

\* the own properties of the object literal, in the order they are written
titleMapping ==
    <<
      <<"The Dark Knight",
        "/images_for_movies/the_dark_knight.jpg">>,
      <<"Gladiator",
        "/images_for_movies/gladiator.jpg">>,
      <<"Mad Max: Fury Road",
        "/images_for_movies/mad_max_fury_road.jpg">>,
      <<"Forrest Gump",
        "/images_for_movies/forrest_gump.jpg">>,
      <<"Fight Club",
        "/images_for_movies/fight_club.jpg">>,
      <<"Alien",
        "/images_for_movies/alien.jpg">>,
      <<"Conjuring",
        "/images_for_movies/conjuring.jpg">>,
      <<"Conjuring 2",
        "/images_for_movies/conjuring_2.jpg">>,
      <<"Inception",
        "/images_for_movies/inception.jpg">>,
      <<"The Matrix",
        "/images_for_movies/the_matrix.jpg">>,
      <<"Interstellar",
        "/images_for_movies/interstellar.jpg">>,
      <<"Lord of the Rings: The Return of the King",
        "/images_for_movies/lord_of_the_rings_the_return_of_the_king.jpg">>,
      <<"Amelie",
        "/images_for_movies/amelie.jpg">>,
      <<"The Shawshank Redemption",
        "/images_for_movies/the_shawshank_redemption.jpg">>,
      <<"Star Wars",
        "/images_for_movies/star_wars.jpg">>
    >>

\* the properties every object literal inherits, each holding a function or an object
ObjectPrototype ==
    {"constructor", "toString", "toLocaleString", "valueOf", "hasOwnProperty",
     "isPrototypeOf", "propertyIsEnumerable", "__proto__", "__defineGetter__",
     "__defineSetter__", "__lookupGetter__", "__lookupSetter__"}

\* key.toLowerCase() of every entry of Object.entries(titleMapping)
LowerKeys == [i \in 1..Len(titleMapping) |-> toLowerCase(Chars(JStr(titleMapping[i][1])))]

PlaceholderPath == "/images_for_movies/placeholder.jpg"

getImagePathForFilm(title) ==
    LET own == {i \in 1..Len(titleMapping) : titleMapping[i][1] = title.s}
        titleLower == toLowerCase(Chars(title))
        entries == {i \in 1..Len(titleMapping) : LowerKeys[i] = titleLower}
    IN IF own # {} THEN StaticSrc(titleMapping[CHOOSE i \in own : TRUE][2])
       ELSE IF title.s \in ObjectPrototype THEN InheritedSrc(title.s)
       ELSE IF entries # {}
            THEN StaticSrc(titleMapping[CHOOSE i \in entries :
                                           \A j \in entries : i <= j][2])
            ELSE StaticSrc(PlaceholderPath)

\* the source renderMovies gives the image of the card of film
imageSrc(film) ==
    IF Truthy(film.movie_base64)
    THEN LET payload == Chars(film.movie_base64)
         IN IF startsWith(payload, DataImagePrefix) THEN DataSrc(payload)
            ELSE DataSrc(DefaultPrefix \o payload)
    ELSE getImagePathForFilm(film.title)

\* the card renderMovies builds for a film
RenderCard(film) ==
    [dataId |-> JStr(String(OrElse(film.id, film.flim_id))),
     img |-> imageSrc(film),
     title |-> String(OrElse(film.title_ru, film.title)),
     author |-> String(OrElse(film.author, JStr("Neizvestnyj rezhissyor"))),
     price |-> IF Truthy(film.price) THEN String(film.price) \o " R/sht"
               ELSE "Cena ne ukazana",
     bookmarkBtn |-> GlyphBookmark,
     cartBtn |-> GlyphCart]

renderMovies(films) == [i \in 1..Len(films) |-> RenderCard(films[i])]

\* a card of the page's markup that has no data-id attribute
StaticCard ==
    [dataId |-> JNull, title |-> "S", author |-> "", price |-> "",
     bookmarkBtn |-> GlyphBookmark, cartBtn |-> GlyphCart]

StaticCards == <<StaticCard>>

Sections == {"all", "random", "static"}

VARIABLES
    cart,                \* let cart
    bookmarks,           \* let bookmarks
    localStorage,        \* the keys cart, bookmarks and token
    fetchPC,             \* per collection: the page-load GET is "waiting" or "done"
    pending,             \* the toggles awaiting their response, in the order issued
    allFilmsCache,       \* let allFilmsCache
    moviesPC,            \* loadHomeMovies: "none", "all", "random" or "done"
    allMoviesSection,    \* the cards of #allMoviesSection
    randomMoviesSection, \* the cards of #randomMoviesSection
    clicks,              \* the clicks and changes of the sort order taken so far
    acked,               \* per collection and id text: the request acknowledged last
    last,                \* the handler step that ran last, and what it did
    activeForms,         \* the .form elements that carry the class "active"
    fields,              \* the values of the inputs, as the last submit read them
    errors,              \* #error and #loginError: their text and their class "show"
    requests,            \* the requests the form handlers have issued
    formPending,         \* the form submits awaiting their response
    location,            \* window.location.href
    issued,              \* the requests the step that ran last handed to fetch
    call                 \* a call of apiRequest followed on its own: what it was
                         \* given and what came of it

vars == <<cart, bookmarks, localStorage, fetchPC, pending, allFilmsCache, moviesPC,
          allMoviesSection, randomMoviesSection, clicks, acked, last,
          activeForms, fields, errors, requests, formPending, location,
          issued, call>>

\* the state of the listing and the collections, and the state of the forms
storeVars == <<cart, bookmarks, fetchPC, pending, allFilmsCache, moviesPC,
               allMoviesSection, randomMoviesSection, clicks, acked>>
formVars == <<activeForms, fields, errors, requests, formPending, location>>

Collection(kind) == IF kind = "cart" THEN cart ELSE bookmarks

SectionCards(section) ==
    CASE section = "all" -> allMoviesSection
      [] section = "random" -> randomMoviesSection
      [] OTHER -> StaticCards

\* what a toggle found when it began, when the specification records it; quiet:
\* no handler has changed the lists or the storage since
NoSnap == [recorded |-> FALSE, cart |-> <<>>, bookmarks |-> <<>>,
           localStorage |-> NoItem, quiet |-> TRUE]
Snapshot == [recorded |-> TRUE, cart |-> cart, bookmarks |-> bookmarks,
             localStorage |-> localStorage, quiet |-> TRUE]

\* the waiting toggles q, after a step that changed the lists or the storage
Disturb(q, changed) ==
    [i \in 1..Len(q) |->
        IF changed /\ q[i].snap.recorded THEN [q[i] EXCEPT !.snap.quiet = FALSE]
        ELSE q[i]]

\* the step a handler ran: op names it; the other fields are those that apply
NoButton == [found |-> FALSE, section |-> "static", pos |-> 0, attached |-> FALSE]
LastStep(op, kind, id, branch, result, alert, button, snap, res) ==
    [op |-> op, kind |-> kind, id |-> id, branch |-> branch, result |-> result,
     alert |-> alert, found |-> button.found, snap |-> snap, res |-> res]
NoAlert == ""
NoResponse == HttpResponse(TRUE, BodyEmpty)

\* the two setItem calls of updateStorage, on a storage
setItems(storage, c, b) ==
    [storage EXCEPT !.cart = JSONstringify(c), !.bookmarks = JSONstringify(b)]

\* updateStorage(), given the lists it finds
updateStorage(c, b) == setItems(localStorage, c, b)

(***************************************************************************)
(* Array operations, with the indices of JavaScript (from 0; -1: none).    *)
(***************************************************************************)
\* list.findIndex(item => String(item.id) === String(id))
findIndex(list, id) ==
    LET hits == {i \in 1..Len(list) : String(list[i].id) = String(id)}
    IN IF hits = {} THEN -1
       ELSE (CHOOSE i \in hits : \A j \in hits : i <= j) - 1

\* list.splice(start, 1), for start >= 0
splice(list, start) ==
    IF start >= Len(list) THEN list
    ELSE [i \in 1..(Len(list) - 1) |-> IF i <= start THEN list[i] ELSE list[i + 1]]

\* the same projection, without the defaults of author and price
mapRowsKeepsFalsy(rows) ==
    [i \in 1..Len(rows) |->
        [id |-> rows[i].movie_id, title |-> rows[i].title,
         author |-> rows[i].author, price |-> rows[i].price]]

\* data.map(c => ({ id: c.movie_id, title: c.title, author: c.author || '',
\*                  price: c.price || '' }))
mapRows(rows) ==
    [i \in 1..Len(rows) |->
        [id |-> rows[i].movie_id, title |-> rows[i].title,
         author |-> OrElse(rows[i].author, JStr("")),
         price |-> OrElse(rows[i].price, JStr(""))]]

\* the movie the click handler reads back from a card
MovieOfCard(card) ==
    [id |-> card.dataId, title |-> JStr(card.title), author |-> JStr(card.author),
     price |-> JStr(card.price)]

\* document.querySelector(`[data-id="${id}"] .cart-btn`): the button of the first
\* card of the document whose data-id attribute is the text of id
querySelector(id) ==
    LET Hits(section) ==
            {i \in 1..Len(SectionCards(section)) :
                /\ SectionCards(section)[i].dataId.t = "string"
                /\ SectionCards(section)[i].dataId.s = String(id)}
        First(section) == CHOOSE i \in Hits(section) : \A j \in Hits(section) : i <= j
        At(section) == [found |-> TRUE, section |-> section, pos |-> First(section),
                        attached |-> TRUE]
    IN CASE Hits("all") # {} -> At("all")
         [] Hits("random") # {} -> At("random")
         [] Hits("static") # {} -> At("static")
         [] OTHER -> NoButton

\* button.textContent = glyph, as the cards of a section show it
SetGlyph(section, button, kind, glyph) ==
    IF button.found /\ button.attached /\ button.section = section
    THEN [SectionCards(section) EXCEPT ![button.pos] =
            IF kind = "cart" THEN [@ EXCEPT !.cartBtn = glyph]
            ELSE [@ EXCEPT !.bookmarkBtn = glyph]]
    ELSE SectionCards(section)

\* the buttons the waiting toggles hold, once the cards of a section are replaced
Detach(section) ==
    [i \in 1..Len(pending) |->
        IF pending[i].button.section = section
        THEN [pending[i] EXCEPT !.button.attached = FALSE]
        ELSE pending[i]]

RemoveAt(q, i) == [j \in 1..(Len(q) - 1) |-> IF j < i THEN q[j] ELSE q[j + 1]]

(***************************************************************************)
(* The requests.                                                           *)
(***************************************************************************)
\* a request that never carries the stored token
RequestAnonymous(path, method, body, callerHeaders) ==
    [path |-> path, method |-> method, body |-> body,
     contentType |-> IF "Content-Type" \in DOMAIN callerHeaders
                     THEN callerHeaders["Content-Type"] ELSE "application/json",
     authorization |-> IF "Authorization" \in DOMAIN callerHeaders
                       THEN callerHeaders["Authorization"] ELSE "none"]

\* the request apiRequest hands to fetch: the headers are the default, then those
\* of the caller, then the token of the storage
Request(path, method, body, callerHeaders) ==
    LET token == localStorage.token
        given(name) == IF name \in DOMAIN callerHeaders THEN callerHeaders[name]
                       ELSE "none"
    IN [path |-> path, method |-> method, body |-> body,
        contentType |-> IF "Content-Type" \in DOMAIN callerHeaders
                        THEN callerHeaders["Content-Type"] ELSE "application/json",
        authorization |-> IF token.present /\ token.value # ""
                          THEN "Bearer " \o token.value ELSE given("Authorization")]

NoHeaders == [name \in {} |-> ""]

NoBody == <<>>

\* an add that always goes to the cart
addOnServerToCart(kind, movie) ==
    Request("/cart", "POST",
            [movie_id |-> movie.id, title |-> movie.title, author |-> movie.author,
             price |-> movie.price], NoHeaders)

\* addCartOnServer(movie) and addBookmarkOnServer(movie): the request they issue
addOnServer(kind, movie) ==
    Request("/" \o kind, "POST",
            [movie_id |-> movie.id, title |-> movie.title, author |-> movie.author,
             price |-> movie.price], NoHeaders)

\* removeCartOnServer(movieId) and removeBookmarkOnServer(movieId)
removeOnServer(kind, movieId) ==
    Request("/" \o kind \o "/" \o String(movieId), "DELETE", NoBody, NoHeaders)

\* no call of apiRequest is followed on its own
NoCall == [made |-> FALSE, headers |-> NoHeaders, res |-> HttpResponse(TRUE, BodyEmpty),
           outcome |-> Returned(EmptyObject)]

(***************************************************************************)
(* The state when the DOMContentLoaded handler has run: the lists are read *)
(* from local storage, the two GETs of the collections are under way, and  *)
(* so is the GET of the films when the page has the "all movies" section.  *)
(***************************************************************************)
\* the texts of the ids a click can carry
IdTexts == {ToString(n) : n \in FilmIds} \cup {"null"}

\* updateStorage writes both keys: a first visit finds neither, a later one both
InitStored ==
    {[cart |-> NoItem, bookmarks |-> NoItem, token |-> NoToken],
     [cart |-> JSONstringify(<<MovieOfCard(RenderCard(Film(NumFilms)))>>),
      bookmarks |-> JSONstringify(<<>>), token |-> NoToken]}

\* the page as its markup gives it, before any submit
Forms == {"registerForm", "loginForm"}
NoError == [textContent |-> "", show |-> FALSE]
EmptyFields ==
    [username |-> <<>>, email |-> <<>>, password |-> <<>>, confirmPassword |-> <<>>,
     loginUsername |-> <<>>, loginPassword |-> <<>>]

InitPage ==
    /\ fields = EmptyFields
    /\ errors = [register |-> NoError, login |-> NoError]
    /\ requests = <<>>
    /\ formPending = <<>>
    /\ location = "page"

Init ==
    /\ InitPage
    /\ activeForms = {"registerForm"}
    /\ localStorage \in InitStored
    /\ cart = ParseOrEmpty(localStorage.cart)
    /\ bookmarks = ParseOrEmpty(localStorage.bookmarks)
    /\ fetchPC = [kind \in Kinds |-> "waiting"]
    /\ pending = <<>>
    /\ allFilmsCache = JArray(<<>>)
    /\ moviesPC = "all"
    /\ allMoviesSection = <<>>
    /\ randomMoviesSection = <<>>
    /\ clicks = 0
    /\ acked = [kind \in Kinds |-> [id \in IdTexts |-> "none"]]
    /\ last = LastStep("load", "none", JNull, "none", "none", NoAlert, NoButton, NoSnap, NoResponse)
    /\ issued = <<Request("/cart", "GET", NoBody, NoHeaders),
                  Request("/bookmarks", "GET", NoBody, NoHeaders),
                  Request("/films/all", "GET", NoBody, NoHeaders)>>
    /\ call = NoCall

(***************************************************************************)
(* fetchCartFromServer and fetchBookmarksFromServer, from the arrival of   *)
(* the response on.                                                        *)
(***************************************************************************)
\* the two lists and the storage, as the fetches read and write them
Page == [cart |-> cart, bookmarks |-> bookmarks, localStorage |-> localStorage]

\* a fetch whose failure empties both lists and stores them
fetchResultResets(kind, res, page) ==
    LET r == apiRequest(res)
        usable == ~r.threw /\ r.data.type = "array"
        c == IF ~usable THEN <<>>
             ELSE IF kind = "cart" THEN mapRows(r.data.rows) ELSE page.cart
        b == IF ~usable THEN <<>>
             ELSE IF kind = "bookmarks" THEN mapRows(r.data.rows) ELSE page.bookmarks
    IN [cart |-> c, bookmarks |-> b, localStorage |-> setItems(page.localStorage, c, b)]

\* what the fetch of kind makes of the lists and the storage on response res
fetchResult(kind, res, page) ==
    LET r == apiRequest(res)
        \* data.map throws when the body is no array
        usable == ~r.threw /\ r.data.type = "array"
        c == IF usable /\ kind = "cart" THEN mapRows(r.data.rows) ELSE page.cart
        b == IF usable /\ kind = "bookmarks" THEN mapRows(r.data.rows)
             ELSE page.bookmarks
    IN [cart |-> c, bookmarks |-> b,
        localStorage |-> IF usable THEN setItems(page.localStorage, c, b)
                         ELSE page.localStorage]

FetchResume(kind, res) ==
    LET r == apiRequest(res)
        usable == ~r.threw /\ r.data.type = "array"
        after == fetchResult(kind, res, Page)
        c == after.cart
        b == after.bookmarks
        stored == after.localStorage
    IN /\ fetchPC[kind] = "waiting"
       /\ fetchPC' = [fetchPC EXCEPT ![kind] = "done"]
       /\ cart' = c
       /\ bookmarks' = b
       /\ localStorage' = stored
       /\ last' = LastStep("fetch", kind, JNull, "none",
                           IF usable THEN "ok" ELSE "failed", NoAlert, NoButton,
                           NoSnap, res)
       /\ pending' = Disturb(pending, <<c, b, stored>> # <<cart, bookmarks, localStorage>>)
       /\ issued' = <<>>
       /\ UNCHANGED <<allFilmsCache, moviesPC, allMoviesSection,
                      randomMoviesSection, clicks, acked>>
       /\ UNCHANGED <<formVars, call>>

fetchCartFromServer == \E res \in FetchResponses : FetchResume("cart", res)

fetchBookmarksFromServer == \E res \in FetchResponses : FetchResume("bookmarks", res)

(***************************************************************************)
(* A click on the cart or bookmark button of a card: the click handler and *)
(* toggleCart or toggleBookmark up to the await of the request.            *)
(***************************************************************************)
\* a toggle that changes its list before the server has answered
ToggleBeginOptimistic(kind, movie, snap) ==
    LET index == findIndex(Collection(kind), movie.id)
        button == querySelector(movie.id)
        list == IF index = -1 THEN Append(Collection(kind), movie)
                ELSE splice(Collection(kind), index)
    IN /\ pending' = Append(pending,
                [kind |-> kind, movie |-> movie, index |-> index, button |-> button,
                 snap |-> snap])
       /\ issued' = <<IF index = -1 THEN addOnServer(kind, movie)
                      ELSE removeOnServer(kind, movie.id)>>
       /\ last' = LastStep("click", kind, movie.id,
                           IF index = -1 THEN "add" ELSE "remove", "waiting",
                           NoAlert, button, NoSnap, NoResponse)
       /\ cart' = IF kind = "cart" THEN list ELSE cart
       /\ bookmarks' = IF kind = "bookmarks" THEN list ELSE bookmarks
       /\ UNCHANGED <<localStorage, fetchPC, allFilmsCache, moviesPC,
                      allMoviesSection, randomMoviesSection, acked>>
       /\ UNCHANGED <<formVars, call>>

ToggleBegin(kind, movie, snap) ==
    LET index == findIndex(Collection(kind), movie.id)
        button == querySelector(movie.id)
    IN /\ pending' = Append(pending,
                [kind |-> kind, movie |-> movie, index |-> index, button |-> button,
                 snap |-> snap])
       /\ issued' = <<IF index = -1 THEN addOnServer(kind, movie)
                      ELSE removeOnServer(kind, movie.id)>>
       /\ last' = LastStep("click", kind, movie.id,
                           IF index = -1 THEN "add" ELSE "remove", "waiting",
                           NoAlert, button, NoSnap, NoResponse)
       /\ UNCHANGED <<cart, bookmarks, localStorage, fetchPC, allFilmsCache, moviesPC,
                      allMoviesSection, randomMoviesSection, acked>>
       /\ UNCHANGED <<formVars, call>>

Click(snap) ==
    \E section \in Sections, kind \in Kinds :
        \E pos \in 1..Len(SectionCards(section)) :
            /\ Len(pending) < MaxPending
            /\ clicks < MaxClicks
            /\ clicks' = clicks + 1
            /\ ToggleBegin(kind, MovieOfCard(SectionCards(section)[pos]), snap)

bodyClick == Click(NoSnap)

\* the same click, in the specification that records what each toggle found
bodyClickRecorded == Click(Snapshot)

(***************************************************************************)
(* toggleCart and toggleBookmark, from the arrival of the response on.     *)
(***************************************************************************)
NullButtonError == "Cannot set properties of null (setting 'textContent')"

ToggleFallback(kind) ==
    IF kind = "cart" THEN "Oshibka raboty s korzinoj" ELSE "Oshibka raboty s zakladkami"

ToggleNotice(kind, branch, movie) ==
    "Film \"" \o String(movie.title) \o "\" "
        \o (CASE kind = "cart" /\ branch = "add" -> "dobavlen v korzinu!"
              [] kind = "cart" /\ branch = "remove" -> "udalyon iz korziny!"
              [] kind = "bookmarks" /\ branch = "add" -> "dobavlen v zakladki!"
              [] OTHER -> "udalyon iz zakladok!")

ToggleResume(kind, i, res) ==
    LET p == pending[i]
        r == apiRequest(res)
        branch == IF p.index = -1 THEN "add" ELSE "remove"
        \* cart.push(movie) or cart.splice(index, 1), once the request succeeded
        list == CASE r.threw -> Collection(kind)
                  [] p.index = -1 -> Append(Collection(kind), p.movie)
                  [] OTHER -> splice(Collection(kind), p.index)
        c == IF kind = "cart" THEN list ELSE cart
        b == IF kind = "bookmarks" THEN list ELSE bookmarks
        \* button.textContent = ... throws when no button was found
        threwOnButton == ~r.threw /\ ~p.button.found
        glyph == IF p.index = -1 THEN GlyphRemove ELSE DefaultGlyph(kind)
        shown(section) == IF r.threw THEN SectionCards(section)
                          ELSE SetGlyph(section, p.button, kind, glyph)
        message == IF r.threw THEN r.message ELSE NullButtonError
        stored == IF r.threw \/ threwOnButton THEN localStorage
                  ELSE updateStorage(c, b)
    IN /\ p.kind = kind
       /\ pending' = Disturb(RemoveAt(pending, i),
                              <<c, b, stored>> # <<cart, bookmarks, localStorage>>)
       /\ cart' = c
       /\ bookmarks' = b
       /\ allMoviesSection' = shown("all")
       /\ randomMoviesSection' = shown("random")
       /\ acked' = IF r.threw THEN acked
                   ELSE [acked EXCEPT ![kind][String(p.movie.id)] = branch]
       /\ localStorage' = stored
       /\ last' = LastStep("toggle", kind, p.movie.id, branch,
                           CASE r.threw -> "failed"
                             [] threwOnButton -> "threw"
                             [] OTHER -> "ok",
                           IF r.threw \/ threwOnButton
                           THEN (IF message # "" THEN message ELSE ToggleFallback(kind))
                           ELSE ToggleNotice(kind, branch, p.movie),
                           p.button, p.snap, res)
       /\ issued' = <<>>
       /\ UNCHANGED <<fetchPC, allFilmsCache, moviesPC, clicks>>
       /\ UNCHANGED <<formVars, call>>

toggleCart ==
    \E i \in 1..Len(pending), res \in ToggleResponses : ToggleResume("cart", i, res)

toggleBookmark ==
    \E i \in 1..Len(pending), res \in ToggleResponses : ToggleResume("bookmarks", i, res)

(***************************************************************************)
(* loadHomeMovies, from the arrival of each of its two responses on.       *)
(***************************************************************************)
RandomCount == 4

Catalogue == [n \in 1..NumFilms |-> Film(NumFilms + 1 - n)]

FilmsAllResponses ==
    {HttpResponse(TRUE, BodyJson(JArray(Catalogue))),
     HttpResponse(FALSE, BodyRaw("Internal Server Error")),
     TransportFailure}

FilmsRandomResponses ==
    {HttpResponse(TRUE, BodyJson(JArray([i \in 1..Len(q) |-> Film(q[i])]))) :
        q \in {q \in SeqsNoDup(FilmIds, NumFilms) :
                 Len(q) = IF NumFilms < RandomCount THEN NumFilms ELSE RandomCount}}
    \cup {TransportFailure}

loadHomeMoviesAll ==
    \E res \in FilmsAllResponses :
        LET r == apiRequest(res)
            \* renderMovies empties the section, then films.forEach throws on no array
            rendered == IF r.data.type = "array" THEN renderMovies(r.data.rows) ELSE <<>>
        IN /\ moviesPC = "all"
           /\ IF r.threw
              THEN /\ moviesPC' = "done"
                   /\ UNCHANGED <<allFilmsCache, allMoviesSection, pending>>
              ELSE /\ allFilmsCache' = r.data
                   /\ allMoviesSection' = rendered
                   /\ pending' = Detach("all")
                   /\ moviesPC' = IF r.data.type = "array" THEN "random" ELSE "done"
           /\ issued' = IF ~r.threw /\ r.data.type = "array"
                         THEN <<Request("/films/random/" \o ToString(RandomCount), "GET",
                                        NoBody, NoHeaders)>>
                         ELSE <<>>
           /\ last' = LastStep("films", "none", JNull, "none",
                               IF r.threw \/ r.data.type # "array" THEN "failed" ELSE "ok",
                               NoAlert, NoButton, NoSnap, NoResponse)
           /\ UNCHANGED <<cart, bookmarks, localStorage, fetchPC, randomMoviesSection,
                          clicks, acked>>
           /\ UNCHANGED <<formVars, call>>

loadHomeMoviesRandom ==
    \E res \in FilmsRandomResponses :
        LET r == apiRequest(res)
        IN /\ moviesPC = "random"
           /\ moviesPC' = "done"
           /\ IF r.threw
              THEN UNCHANGED <<randomMoviesSection, pending>>
              ELSE /\ randomMoviesSection' = renderMovies(r.data.rows)
                   /\ pending' = Detach("random")
           /\ issued' = <<>>
           /\ last' = LastStep("random", "none", JNull, "none",
                               IF r.threw THEN "failed" ELSE "ok",
                               NoAlert, NoButton, NoSnap, NoResponse)
           /\ UNCHANGED <<cart, bookmarks, localStorage, fetchPC, allFilmsCache,
                          allMoviesSection, clicks, acked>>
           /\ UNCHANGED <<formVars, call>>

\* the change handler of #sortSelect; a change counts as a click of the visit
sortChange ==
    \E field \in SortFields :
        LET sorted == sortFilms(allFilmsCache.rows, field)
        IN /\ clicks < MaxClicks
           /\ clicks' = clicks + 1
           /\ allFilmsCache' = JArray(sorted.films)
           /\ allMoviesSection' = renderMovies(sorted.returned)
           /\ pending' = Detach("all")
           /\ last' = LastStep("sort", "none", JStr(field), "none", "none", NoAlert,
                               NoButton, NoSnap, NoResponse)
           /\ issued' = <<>>
           /\ UNCHANGED <<cart, bookmarks, localStorage, fetchPC, moviesPC,
                          randomMoviesSection, acked>>
           /\ UNCHANGED <<formVars, call>>

Next ==
    \/ fetchCartFromServer
    \/ fetchBookmarksFromServer
    \/ bodyClick
    \/ toggleCart
    \/ toggleBookmark
    \/ loadHomeMoviesAll
    \/ loadHomeMoviesRandom
    \/ sortChange

Spec == Init /\ [][Next]_vars

\* the same program, each toggle recording the lists and the storage it found
NextRecorded ==
    \/ fetchCartFromServer
    \/ fetchBookmarksFromServer
    \/ bodyClickRecorded
    \/ toggleCart
    \/ toggleBookmark
    \/ loadHomeMoviesAll
    \/ loadHomeMoviesRandom
    \/ sortChange

SpecRecorded == Init /\ [][NextRecorded]_vars

(***************************************************************************)
(* The registration and login forms.  The value of an input is a sequence  *)
(* of characters, so that trimming it is a computation.                    *)
(***************************************************************************)
\* valid submits in one visit of the page
MaxSubmits == 2

Space == " "
Names == {<<>>, <<Space>>, <<Space, "a">>}
RegisterNames == {<<Space, "a">>}
Emails == {<<"e", Space>>}
Passwords == {<<>>, <<Space>>, <<"p">>}

RECURSIVE TrimStart(_)
TrimStart(s) == IF s # <<>> /\ Head(s) = Space THEN TrimStart(Tail(s)) ELSE s

RECURSIVE TrimEnd(_)
TrimEnd(s) ==
    IF s # <<>> /\ s[Len(s)] = Space THEN TrimEnd(SubSeq(s, 1, Len(s) - 1)) ELSE s

\* a value read without trimming it
trimNothing(s) == s

\* String.prototype.trim
trim(s) == TrimEnd(TrimStart(s))

\* the ids a call of window.showForm may be given: those of the forms, and one that
\* no element of the page carries
FormIds == Forms \cup {"noSuchForm"}

\* the target is made active and the other forms stay as they are
showFormKeepsOthers(formId) ==
    IF formId \in Forms THEN activeForms \cup {formId} ELSE activeForms

\* showForm(formId): every .form that is active loses the class, then the element
\* with the id, if there is one, gets it
showForm(formId) ==
    LET cleared == activeForms \ {form \in Forms : form \in activeForms}
    IN IF formId \in Forms THEN cleared \cup {formId} ELSE cleared

FormStep(op, result) ==
    LastStep(op, "none", JNull, "none", result, NoAlert, NoButton, NoSnap, NoResponse)

\* the click handlers of the two links that switch the form
loginLinkClick ==
    /\ location = "page"
    /\ activeForms' = showForm("loginForm")
    /\ last' = FormStep("loginLink", "none")
    /\ issued' = <<>>
    /\ UNCHANGED <<fields, errors, requests, formPending, location, localStorage>>
    /\ UNCHANGED <<storeVars, call>>

registerLinkClick ==
    /\ location = "page"
    /\ activeForms' = showForm("registerForm")
    /\ last' = FormStep("registerLink", "none")
    /\ issued' = <<>>
    /\ UNCHANGED <<fields, errors, requests, formPending, location, localStorage>>
    /\ UNCHANGED <<storeVars, call>>

\* a call of window.showForm, which the handler exports to the page
showFormCall ==
    \E formId \in FormIds :
        /\ location = "page"
        /\ activeForms' = showForm(formId)
        /\ last' = LastStep("showForm", "none", JStr(formId), "none", "none", NoAlert,
                            NoButton, NoSnap, NoResponse)
        /\ issued' = <<>>
        /\ UNCHANGED <<fields, errors, requests, formPending, location, localStorage>>
        /\ UNCHANGED <<storeVars, call>>

PasswordMismatch == "Paroli ne sovpadayut!"
FillAllFields == "Zapolnite vse polya!"
RegisterFallback == "Oshibka registracii"
LoginFallback == "Oshibka vhoda"
\* the text is set and the class "show" is not added
ShowErrorHidden(text) == [textContent |-> text, show |-> FALSE]

\* errorDiv.textContent = text; errorDiv.classList.add('show')
ShowError(text) == [textContent |-> text, show |-> TRUE]

\* the submit handler of #register, up to the await of the request
RegisterBegin(username, email, password, confirmPassword) ==
    /\ fields' = [EmptyFields EXCEPT !.username = username, !.email = email,
                                     !.password = password,
                                     !.confirmPassword = confirmPassword]
    /\ IF password # confirmPassword
       THEN /\ errors' = [errors EXCEPT !.register = ShowError(PasswordMismatch)]
            /\ last' = FormStep("registerSubmit", "invalid")
            /\ issued' = <<>>
            /\ UNCHANGED <<requests, formPending>>
       ELSE /\ Len(requests) < MaxSubmits
            /\ requests' = Append(requests,
                    Request("/register", "POST",
                            [username |-> trim(username), email |-> trim(email),
                             password |-> password], NoHeaders))
            /\ issued' = <<requests'[Len(requests')]>>
            /\ formPending' = Append(formPending, "register")
            /\ last' = FormStep("registerSubmit", "sent")
            /\ UNCHANGED errors
    /\ UNCHANGED <<activeForms, location, localStorage>>
    /\ UNCHANGED <<storeVars, call>>

registerSubmit ==
    \E username \in RegisterNames, email \in Emails,
       password \in Passwords, confirmPassword \in Passwords :
        /\ location = "page"
        /\ RegisterBegin(username, email, password, confirmPassword)

\* the submit handler of #login, up to the await of the request
LoginBegin(username, password) ==
    /\ fields' = [EmptyFields EXCEPT !.loginUsername = username,
                                     !.loginPassword = password]
    /\ IF trim(username) = <<>> \/ password = <<>>
       THEN /\ errors' = [errors EXCEPT !.login = ShowError(FillAllFields)]
            /\ last' = FormStep("loginSubmit", "invalid")
            /\ issued' = <<>>
            /\ UNCHANGED <<requests, formPending>>
       ELSE /\ Len(requests) < MaxSubmits
            /\ requests' = Append(requests,
                    Request("/login", "POST",
                            [username |-> trim(username), email |-> <<>>,
                             password |-> password], NoHeaders))
            /\ issued' = <<requests'[Len(requests')]>>
            /\ formPending' = Append(formPending, "login")
            /\ last' = FormStep("loginSubmit", "sent")
            /\ UNCHANGED errors
    /\ UNCHANGED <<activeForms, location, localStorage>>
    /\ UNCHANGED <<storeVars, call>>

loginSubmit ==
    \E username \in Names, password \in Passwords :
        /\ location = "page"
        /\ LoginBegin(username, password)

RegisterResponses ==
    {HttpResponse(TRUE, BodyJson(EmptyObject)),
     HttpResponse(FALSE, BodyJson(JObject(JStr("User exists"), JUndefined, JUndefined))),
     TransportFailure}

LoginResponses ==
    {HttpResponse(TRUE, BodyJson(JObject(JUndefined, JUndefined, JStr("t1")))),
     HttpResponse(TRUE, BodyJson(JObject(JUndefined, JUndefined, JStr("")))),
     HttpResponse(TRUE, BodyJson(EmptyObject)),
     HttpResponse(FALSE, BodyJson(JObject(JStr("Bad credentials"), JUndefined, JUndefined))),
     TransportFailure}

\* the submit handler of #register, from the arrival of the response on
registerResume ==
    \E i \in 1..Len(formPending), res \in RegisterResponses :
        LET r == apiRequest(res)
        IN /\ location = "page"
           /\ formPending[i] = "register"
           /\ formPending' = RemoveAt(formPending, i)
           /\ issued' = <<>>
           /\ IF r.threw
              THEN /\ errors' = [errors EXCEPT !.register =
                          ShowError(IF r.message # "" THEN r.message
                                    ELSE RegisterFallback)]
                   /\ UNCHANGED activeForms
              ELSE /\ errors' = [errors EXCEPT !.register = NoError]
                   /\ activeForms' = showForm("loginForm")
           /\ last' = LastStep("registerResponse", "none", JNull, "none",
                               IF r.threw THEN "failed" ELSE "ok", NoAlert, NoButton,
                               NoSnap, res)
           /\ UNCHANGED <<fields, requests, location, localStorage>>
           /\ UNCHANGED <<storeVars, call>>

\* the token is stored whatever the response carries
StoreTokenAlways(data) ==
    [localStorage EXCEPT !.token = Item(String(data.access_token))]

\* if (data && data.access_token) localStorage.setItem('token', data.access_token)
StoreToken(data) ==
    IF Truthy(data.access_token)
    THEN [localStorage EXCEPT !.token = Item(String(data.access_token))]
    ELSE localStorage

\* the submit handler of #login, from the arrival of the response on
loginResume ==
    \E i \in 1..Len(formPending), res \in LoginResponses :
        LET r == apiRequest(res)
        IN /\ location = "page"
           /\ formPending[i] = "login"
           /\ formPending' = RemoveAt(formPending, i)
           /\ issued' = <<>>
           /\ IF r.threw
              THEN /\ errors' = [errors EXCEPT !.login =
                          ShowError(IF r.message # "" THEN r.message
                                    ELSE LoginFallback)]
                   /\ UNCHANGED <<location, localStorage>>
              ELSE /\ localStorage' = StoreToken(r.data)
                   /\ errors' = [errors EXCEPT !.login = NoError]
                   /\ location' = "/home.html"
           /\ last' = LastStep("loginResponse", "none", JNull, "none",
                               IF r.threw THEN "failed" ELSE "ok", NoAlert, NoButton,
                               NoSnap, res)
           /\ UNCHANGED <<activeForms, fields, requests>>
           /\ UNCHANGED <<storeVars, call>>

\* the page that shows the forms, at its load: any form may be the active one
InitForms ==
    /\ InitPage
    /\ activeForms \in {{"registerForm"}, {"loginForm"}}
    /\ localStorage \in {[cart |-> NoItem, bookmarks |-> NoItem, token |-> NoToken],
                         [cart |-> NoItem, bookmarks |-> NoItem, token |-> Item("t0")]}
    /\ cart = ParseOrEmpty(localStorage.cart)
    /\ bookmarks = ParseOrEmpty(localStorage.bookmarks)
    /\ fetchPC = [kind \in Kinds |-> "waiting"]
    /\ pending = <<>>
    /\ allFilmsCache = JArray(<<>>)
    /\ moviesPC = "none"
    /\ allMoviesSection = <<>>
    /\ randomMoviesSection = <<>>
    /\ clicks = 0
    /\ acked = [kind \in Kinds |-> [id \in IdTexts |-> "none"]]
    /\ last = FormStep("load", "none")
    /\ issued = <<Request("/cart", "GET", NoBody, NoHeaders),
                  Request("/bookmarks", "GET", NoBody, NoHeaders)>>
    /\ call = NoCall

NextForms ==
    \/ showFormCall
    \/ loginLinkClick
    \/ registerLinkClick
    \/ registerSubmit
    \/ loginSubmit
    \/ registerResume
    \/ loginResume

SpecForms == InitForms /\ [][NextForms]_vars

(***************************************************************************)
(* A visit that begins on the page of the forms and goes on, once a login  *)
(* has set window.location.href, on /home.html: the document is replaced,  *)
(* the DOMContentLoaded handler runs again and finds the local storage as  *)
(* the login left it.                                                      *)
(***************************************************************************)
homeLoad ==
    /\ location = "/home.html"
    /\ moviesPC = "none"
    /\ cart' = ParseOrEmpty(localStorage.cart)
    /\ bookmarks' = ParseOrEmpty(localStorage.bookmarks)
    /\ fetchPC' = [kind \in Kinds |-> "waiting"]
    /\ pending' = <<>>
    /\ allFilmsCache' = JArray(<<>>)
    /\ moviesPC' = "all"
    /\ allMoviesSection' = <<>>
    /\ randomMoviesSection' = <<>>
    /\ clicks' = 0
    /\ acked' = [kind \in Kinds |-> [id \in IdTexts |-> "none"]]
    /\ last' = LastStep("load", "none", JNull, "none", "none", NoAlert, NoButton,
                        NoSnap, NoResponse)
    /\ activeForms' = {}
    /\ fields' = EmptyFields
    /\ errors' = [register |-> NoError, login |-> NoError]
    /\ requests' = <<>>
    /\ formPending' = <<>>
    /\ issued' = <<Request("/cart", "GET", NoBody, NoHeaders),
                   Request("/bookmarks", "GET", NoBody, NoHeaders),
                   Request("/films/all", "GET", NoBody, NoHeaders)>>
    /\ UNCHANGED <<localStorage, location, call>>

\* /home.html is loaded
AtHome == location = "/home.html" /\ moviesPC # "none"

NextSession ==
    \/ loginSubmit
    \/ loginResume
    \/ homeLoad
    \/ AtHome /\ fetchCartFromServer
    \/ AtHome /\ fetchBookmarksFromServer
    \/ AtHome /\ bodyClick
    \/ AtHome /\ toggleCart
    \/ AtHome /\ toggleBookmark
    \/ AtHome /\ loadHomeMoviesAll
    \/ AtHome /\ loadHomeMoviesRandom
    \/ AtHome /\ sortChange

SpecSession == InitForms /\ [][NextSession]_vars

(***************************************************************************)
(* apiRequest on its own: one call, with the headers option its caller     *)
(* gives and the response it gets.                                         *)
(***************************************************************************)
\* options.headers: absent, or with either or both of the two headers
CallerHeaderSets ==
    {NoHeaders,
     "Content-Type" :> "text/plain",
     "Authorization" :> "Basic abc",
     ("Content-Type" :> "text/plain") @@ ("Authorization" :> "Basic abc")}

Methods == {"GET", "POST"}

\* the responses a request may get: each status with each form of body
GatewayResponses ==
    LET bodies ==
            {BodyEmpty,
             BodyRaw("Internal Server Error"),
             BodyJson(EmptyObject),
             BodyJson(JArray(<<>>)),
             BodyJson(JObject(JStr("d"), JStr("m"), JUndefined)),
             BodyJson(JObject(JStr(""), JStr("m"), JUndefined)),
             BodyJson(JObject(JUndefined, JNum(7), JUndefined)),
             BodyJson(JObject(JNum(422), JUndefined, JUndefined)),
             BodyJson(JObject(JNull, JNum(0), JUndefined))}
    IN {HttpResponse(ok, text) : ok \in BOOLEAN, text \in bodies}
       \cup {TransportFailure}

apiRequestCall ==
    \E method \in Methods, headers \in CallerHeaderSets, res \in GatewayResponses :
        /\ call' = [made |-> TRUE, headers |-> headers, res |-> res,
                    outcome |-> apiRequest(res)]
        /\ issued' = <<Request("/cart", method, NoBody, headers)>>
        /\ last' = LastStep("apiRequest", "none", JNull, "none", "none", NoAlert,
                            NoButton, NoSnap, res)
        /\ UNCHANGED <<localStorage, storeVars, formVars>>

NextGateway == apiRequestCall

SpecGateway == InitForms /\ [][NextGateway]_vars

(***************************************************************************)
(* sortFilms on its own: one call on the films the cache holds.            *)
(***************************************************************************)
\* films of the list /films/all may serve
MaxSortLen == 3

\* films whose titles differ in case only, whose prices are numbers, texts of
\* numbers, a text that is no number and a missing price, and with missing authors
SortFilm(id, title, author, price) ==
    [id |-> JNum(id), flim_id |-> JUndefined, title |-> title, title_ru |-> JUndefined,
     author |-> author, price |-> price, movie_base64 |-> JUndefined]

SortCatalogue ==
    {SortFilm(1, JStr("B"), JStr("b"), JStr("20")),
     SortFilm(2, JStr("a"), JUndefined, JStr("5")),
     SortFilm(3, JStr("A"), JStr("B"), JNum(5)),
     SortFilm(4, JStr("b"), JNull, JUndefined),
     SortFilm(5, JStr("20"), JStr("a"), JStr("abc")),
     SortFilm(6, JStr("abc"), JStr("A"), JStr(" 7"))}

SortLists == SeqsNoDup(SortCatalogue, MaxSortLen)

InitSort ==
    /\ InitPage
    /\ activeForms = {}
    /\ localStorage = [cart |-> NoItem, bookmarks |-> NoItem, token |-> NoToken]
    /\ cart = <<>>
    /\ bookmarks = <<>>
    /\ fetchPC = [kind \in Kinds |-> "done"]
    /\ pending = <<>>
    /\ allFilmsCache \in {JArray(list) : list \in SortLists}
    /\ moviesPC = "done"
    /\ allMoviesSection = renderMovies(allFilmsCache.rows)
    /\ randomMoviesSection = <<>>
    /\ clicks = 0
    /\ acked = [kind \in Kinds |-> [id \in IdTexts |-> "none"]]
    /\ last = LastStep("load", "none", JNull, "none", "none", NoAlert, NoButton, NoSnap,
                       NoResponse)
    /\ issued = <<>>
    /\ call = NoCall

sortFilmsCall ==
    \E field \in SortFields :
        LET films == allFilmsCache.rows
            outcome == sortFilms(films, field)
        IN /\ call' = [made |-> TRUE, field |-> field, films |-> films,
                       outcome |-> outcome]
           /\ allFilmsCache' = JArray(outcome.films)
           /\ last' = LastStep("sortFilms", "none", JStr(field), "none", "none", NoAlert,
                               NoButton, NoSnap, NoResponse)
           /\ UNCHANGED <<cart, bookmarks, localStorage, fetchPC, pending, moviesPC,
                          allMoviesSection, randomMoviesSection, clicks, acked,
                          issued, formVars>>

NextSort == sortFilmsCall

SpecSort == InitSort /\ [][NextSort]_vars

(***************************************************************************)
(* renderMovies on one film at a time: the image of its card.              *)
(***************************************************************************)
ImageTitles ==
    {titleMapping[i][1] : i \in 1..Len(titleMapping)}
    \cup {"alien", "THE MATRIX", "star wars", "Unknown", "constructor", "toString"}

ImagePayloads ==
    {JUndefined, JNull, JStr("")}
    \cup {JStr("QQ"), JStr("data:image/png;base64,QQ"), JStr("data:image/"),
          JStr("data:text/plain,QQ"), JStr("data")}

ImageFilms ==
    {[Film(1) EXCEPT !.title = JStr(title), !.movie_base64 = payload] :
        title \in ImageTitles, payload \in ImagePayloads}

InitImage ==
    /\ InitSort
    /\ allFilmsCache = JArray(<<>>)

renderMoviesCall ==
    \E film \in ImageFilms :
        /\ allMoviesSection' = renderMovies(<<film>>)
        /\ call' = [made |-> TRUE, film |-> film, outcome |-> allMoviesSection'[1].img]
        /\ pending' = Detach("all")
        /\ last' = LastStep("renderMovies", "none", film.title, "none", "none", NoAlert,
                            NoButton, NoSnap, NoResponse)
        /\ UNCHANGED <<cart, bookmarks, localStorage, fetchPC, allFilmsCache, moviesPC,
                       randomMoviesSection, clicks, acked, issued, formVars>>

NextImage == renderMoviesCall

SpecImage == InitImage /\ [][NextImage]_vars

(***************************************************************************)
(* What the properties speak of.                                           *)
(***************************************************************************)
\* the number of entries of list whose id has the text of id
Count(list, id) == Cardinality({i \in 1..Len(list) : String(list[i].id) = String(id)})

NoDuplicateIds(list) ==
    \A i, j \in 1..Len(list) : String(list[i].id) = String(list[j].id) => i = j

\* the glyph on the button of collection kind of the card that carries id
ShownGlyph(kind, id) ==
    LET button == querySelector(id)
        card == SectionCards(button.section)[button.pos]
    IN IF kind = "cart" THEN card.cartBtn ELSE card.bookmarkBtn

\* both stored snapshots are the texts of the lists in memory
Persisted ==
    /\ localStorage.cart = JSONstringify(cart)
    /\ localStorage.bookmarks = JSONstringify(bookmarks)

\* the transport delivered the response and its status is a success
ResponseOk(res) == res.transport = "ok" /\ res.ok

\* the last step was a toggle whose request the server answered with success
ToggleSucceeded == last.op = "toggle" /\ ResponseOk(last.res)

\* C1: a toggle that found no entry with the id of its movie and whose add request
\* succeeded leaves, when it finishes, exactly one entry with that id in the
\* collection and the remove glyph on the button of the movie's card.
C1_AddLeavesOneEntry ==
    (ToggleSucceeded /\ last.branch = "add") =>
        /\ Count(Collection(last.kind), last.id) = 1
        /\ querySelector(last.id).found => ShownGlyph(last.kind, last.id) = GlyphRemove

\* C2: a toggle that found an entry with the id of its movie and whose remove request
\* succeeded leaves, when it finishes, no entry with that id in the collection and
\* the default glyph of the collection on the button of the movie's card.
C2_RemoveLeavesNoEntry ==
    (ToggleSucceeded /\ last.branch = "remove") =>
        /\ Count(Collection(last.kind), last.id) = 0
        /\ querySelector(last.id).found =>
              ShownGlyph(last.kind, last.id) = DefaultGlyph(last.kind)

\* C4: in every reachable state neither the cart nor the bookmarks hold two entries
\* whose ids have the same text.
C4_UniqueIds == NoDuplicateIds(cart) /\ NoDuplicateIds(bookmarks)

\* C5: when a toggle has completed with success, every id toggled in this visit is
\* in the collection exactly if the request the server acknowledged last for it in
\* that collection was an add.
C5_ReflectsLastAcknowledged ==
    (ToggleSucceeded /\ last.result = "ok") =>
        \A kind \in Kinds, id \in IdTexts :
            acked[kind][id] # "none" =>
                ((Count(Collection(kind), JStr(id)) > 0) <=> (acked[kind][id] = "add"))

\* C6: a toggle that found no button for its movie and whose request succeeded has,
\* when it finishes, changed the collection and written the new lists to local
\* storage.
C6_NoButtonStillPersists ==
    (ToggleSucceeded /\ ~last.found) =>
        /\ Persisted
        /\ last.branch = "add" => Count(Collection(last.kind), last.id) > 0

\* C7: every step of a handler that changes the cart or the bookmarks in memory ends
\* with both stored snapshots equal to the texts of the lists in memory.
C7_MutationsPersisted ==
    [][(cart' # cart \/ bookmarks' # bookmarks) => Persisted']_vars

\* the message of the failure the response last.res is
FailureShown ==
    /\ last.alert # NoAlert
    /\ last.alert = IF last.res.transport = "ok" THEN last.res.text.value.detail.s
                    ELSE last.res.error

ToggleFailed == last.op = "toggle" /\ ~ResponseOk(last.res)

\* C3, as claimed: when the request of a toggle fails, the collection and both stored
\* snapshots are what they were when the toggle started, and the failure message is
\* shown.
C3_FailureLeavesStartState ==
    ToggleFailed =>
        /\ cart = last.snap.cart
        /\ bookmarks = last.snap.bookmarks
        /\ localStorage = last.snap.localStorage
        /\ FailureShown

\* C3, amended: the step of a toggle whose request failed changes neither list nor
\* the storage and shows the failure message; the lists and the storage are what
\* the toggle found when it started if no other handler changed them meanwhile.
C3_FailureChangesNothing ==
    [][(ToggleFailed' /\ Len(pending') < Len(pending)) =>
            /\ UNCHANGED <<cart, bookmarks, localStorage>>
            /\ FailureShown'
            /\ last'.snap.quiet =>
                  /\ cart' = last'.snap.cart
                  /\ bookmarks' = last'.snap.bookmarks
                  /\ localStorage' = last'.snap.localStorage]_vars

\* a toggle failed in the remove branch after another handler changed the lists
C3_Witness ==
    /\ ToggleFailed
    /\ last.snap.recorded
    /\ last.branch = "remove"
    /\ ~last.snap.quiet

\* C8: a step changes a list or the storage only when it handles a response: the
\* click that issues the request of a toggle changes none of them, and a toggle
\* changes them only in the step that receives the success of its request.
C8_MutationOnlyAfterSuccess ==
    [][(<<cart, bookmarks, localStorage>>' # <<cart, bookmarks, localStorage>>) =>
            \/ last'.op = "fetch" /\ ResponseOk(last'.res)
            \/ /\ last'.op = "toggle"
               /\ ResponseOk(last'.res)
               /\ Len(pending') < Len(pending)]_vars

\* a toggle has added its entry while another toggle still waits with nothing added
C8_Witness ==
    /\ ToggleSucceeded
    /\ last.branch = "add"
    /\ Len(pending) > 0
    /\ Count(Collection(last.kind), last.id) > 0
    /\ \E i \in 1..Len(pending) :
          /\ pending[i].index = -1
          /\ Count(Collection(pending[i].kind), pending[i].movie.id) = 0

\* the GET answered with success and a body that is an array
FetchUsable(res) ==
    ResponseOk(res) /\ res.text.form = "json" /\ res.text.value.type = "array"

\* row as the claim projects it: {id: movie_id, title, author or '', price or ''}
Projected(row, item) ==
    /\ item.id = row.movie_id
    /\ item.title = row.title
    /\ item.author = (IF row.author.t = "string" /\ row.author.s # "" THEN row.author
                      ELSE JStr(""))
    /\ item.price = (IF (row.price.t = "string" /\ row.price.s # "")
                        \/ (row.price.t = "number" /\ row.price.n # 0)
                     THEN row.price ELSE JStr(""))

\* C9: a fetch whose GET succeeds makes the collection the list of the server, in
\* its order, each row projected, and stores both snapshots; a fetch whose GET fails
\* or whose body cannot be used changes neither list nor the storage; neither shows
\* a notification.
C9_FetchReplacesOrKeeps ==
    [][(last'.op = "fetch" /\ fetchPC' # fetchPC) =>
            LET kind == last'.kind
                rows == last'.res.text.value.rows
                new == IF kind = "cart" THEN cart' ELSE bookmarks'
            IN /\ last'.alert = NoAlert
               /\ IF FetchUsable(last'.res)
                  THEN /\ Len(new) = Len(rows)
                       /\ \A i \in 1..Len(rows) : Projected(rows[i], new[i])
                       /\ Persisted'
                       /\ kind = "cart" => bookmarks' = bookmarks
                       /\ kind = "bookmarks" => cart' = cart
                  ELSE UNCHANGED <<cart, bookmarks, localStorage>>]_vars

\* a fetch replaced a list that a toggle had filled by the rows of the server, one
\* of them without author and with the price 0
C9_Witness ==
    /\ last.op = "fetch"
    /\ FetchUsable(last.res)
    /\ Len(Collection(last.kind)) = NumFilms
    /\ \E i \in 1..Len(Collection(last.kind)) :
          /\ Collection(last.kind)[i].author = JStr("")
          /\ Collection(last.kind)[i].price = JStr("")
    /\ Persisted
    /\ clicks > 0

\* the user submitted a form whose fields fail the check of the handler
RegisterInvalid ==
    last.op = "registerSubmit" /\ fields.password # fields.confirmPassword
LoginInvalid ==
    /\ last.op = "loginSubmit"
    /\ \/ \A i \in 1..Len(fields.loginUsername) : fields.loginUsername[i] = Space
       \/ Len(fields.loginPassword) = 0

\* C10: a registration submit whose password differs from its confirmation, and a
\* login submit whose username is empty once trimmed or whose password is empty,
\* show the inline error of their form and issue no request.
C10_InvalidSubmitSendsNothing ==
    [][/\ RegisterInvalid' =>
            /\ requests' = requests
            /\ formPending' = formPending
            /\ errors'.register = [textContent |-> PasswordMismatch, show |-> TRUE]
       /\ LoginInvalid' =>
            /\ requests' = requests
            /\ formPending' = formPending
            /\ errors'.login = [textContent |-> FillAllFields, show |-> TRUE]]_vars

\* after a request was issued, a login submit with a username of spaces was refused
C10_Witness ==
    /\ LoginInvalid
    /\ fields.loginUsername = <<Space>>
    /\ fields.loginPassword # <<>>
    /\ errors.login.show
    /\ Len(requests) = 1
    /\ errors.register.show

(***************************************************************************)
(* The forms.                                                              *)
(***************************************************************************)
\* the message of the error apiRequest throws for a response that failed
FailureMessage(res) ==
    IF res.transport = "ok" THEN res.text.value.detail.s ELSE res.error

\* the response is an object that carries a non-empty access token
CarriesToken(res) ==
    /\ res.text.form = "json"
    /\ res.text.value.type = "object"
    /\ res.text.value.access_token.t = "string"
    /\ res.text.value.access_token.s # ""

LoginAnswered == last.op = "loginResponse"
RegisterAnswered == last.op = "registerResponse"

\* C11: when the response of a valid login submit arrives: on a success that carries
\* the access token t the stored token is t and the browser goes to /home.html; on a
\* success without a token the stored token is unchanged and the browser goes to
\* /home.html; on a failure the stored token is unchanged, the inline error of the
\* login form shows the failure and the browser stays on the page.
C11_LoginStoresTokenThenNavigates ==
    [][(LoginAnswered' /\ formPending' # formPending) =>
            LET res == last'.res
            IN IF ResponseOk(res)
               THEN /\ location' = "/home.html"
                    /\ localStorage'.token =
                          (IF CarriesToken(res)
                           THEN [present |-> TRUE,
                                 value |-> res.text.value.access_token.s]
                           ELSE localStorage.token)
               ELSE /\ localStorage'.token = localStorage.token
                    /\ location' = location
                    /\ errors'.login =
                          [textContent |-> FailureMessage(res), show |-> TRUE]]_vars

\* a login that found the token t0 stored the token t1 of its response and left
C11_Witness ==
    /\ LoginAnswered
    /\ ResponseOk(last.res)
    /\ CarriesToken(last.res)
    /\ localStorage.token = [present |-> TRUE, value |-> "t1"]
    /\ location = "/home.html"
    /\ Len(requests) = MaxSubmits

\* C12: when the response of a valid registration submit arrives: on a success the
\* error area of the form is hidden and empty and the login form is the active
\* form; on a failure the error area shows the failure and the active forms are
\* unchanged.  A successful login submit leaves the error area of the login form
\* hidden and empty, so the error of an earlier failed submit is cleared.
C12_RegisterOutcome ==
    [][/\ (RegisterAnswered' /\ formPending' # formPending) =>
            IF ResponseOk(last'.res)
            THEN /\ errors'.register = [textContent |-> "", show |-> FALSE]
                 /\ activeForms' = {"loginForm"}
            ELSE /\ errors'.register =
                       [textContent |-> FailureMessage(last'.res), show |-> TRUE]
                 /\ activeForms' = activeForms
       /\ (LoginAnswered' /\ formPending' # formPending /\ ResponseOk(last'.res)) =>
            errors'.login = [textContent |-> "", show |-> FALSE]]_vars

\* the second registration submit succeeded: no error is left and the login form
\* is shown
C12_Witness ==
    /\ RegisterAnswered
    /\ ResponseOk(last.res)
    /\ errors.register = [textContent |-> "", show |-> FALSE]
    /\ activeForms = {"loginForm"}
    /\ Len(requests) = MaxSubmits
    /\ formPending = <<>>

ShowFormCalled == last.op = "showForm"

\* C13: a call of showForm leaves at most one form active; given the id of a form
\* it leaves exactly that form active; and the same call made again at once would
\* leave the active forms as the first call left them.
C13_ShowFormOneActive ==
    [][\A formId \in FormIds :
            (ShowFormCalled' /\ last'.id.s = formId) =>
                /\ Cardinality(activeForms') <= 1
                /\ formId \in Forms => activeForms' = {formId}
                /\ showForm(formId)' = activeForms']_vars

\* showForm was given the id of the form that was not the active one, after the
\* active form had been switched by a registration
C13_Witness ==
    /\ ShowFormCalled
    /\ last.id.s = "registerForm"
    /\ activeForms = {"registerForm"}
    /\ Len(requests) > 0
    /\ errors.register = [textContent |-> "", show |-> FALSE]

\* C14: a call of showForm with an id that no element carries leaves the set of
\* active forms as it was before the call.
C14_UnknownIdIsNoOp ==
    [][(ShowFormCalled' /\ last'.id.s \notin Forms) =>
            activeForms' = activeForms]_vars

(***************************************************************************)
(* The requests.                                                           *)
(***************************************************************************)
\* C15: every request handed to fetch carries the header Authorization with
\* "Bearer " and the token that local storage holds when the request is issued, and
\* no Authorization header when local storage holds no token; so the requests of
\* the page loaded after a login stored a token carry that token.  (No step both
\* issues a request and stores a token.)
C15_RequestsCarryStoredToken ==
    \A i \in 1..Len(issued) :
        issued[i].authorization =
            (IF localStorage.token.present
             THEN "Bearer " \o localStorage.token.value
             ELSE "none")

\* on /home.html, loaded after a login stored the token t1, a click has issued the
\* POST of its toggle with that token
C15_Witness ==
    /\ AtHome
    /\ localStorage.token = [present |-> TRUE, value |-> "t1"]
    /\ last.op = "click"
    /\ last.branch = "add"
    /\ Len(issued) = 1
    /\ issued[1].method = "POST"
    /\ issued[1].authorization = "Bearer t1"

\* the value the request was sent with for the header name
SentHeader(name) ==
    IF name = "Content-Type" THEN issued[1].contentType ELSE issued[1].authorization

\* C16: a header the caller gives in options.headers is the one the request is sent
\* with, for Content-Type and for Authorization: with a token stored and an
\* Authorization header given by the caller, the request carries the caller's value.
C16_CallerHeadersOverride ==
    call.made =>
        \A name \in DOMAIN call.headers : SentHeader(name) = call.headers[name]

\* what || and if take for true
IsTruthy(v) == (v.t = "string" /\ v.s # "") \/ (v.t = "number" /\ v.n # 0)

\* a message as the error carries it: a string as it is, a number in digits
MessageText(v) == IF v.t = "string" THEN v.s ELSE ToString(v.n)

\* C17: apiRequest returns exactly when the transport succeeds and the status is a
\* success; it returns the parsed body, {} for an empty body and {detail: text} for
\* a body that is not JSON; on a status that is no success it throws the detail of
\* the body if truthy, else its message if truthy, else the generic phrase, a
\* message that is no string being serialised; a body that is not JSON never makes
\* it throw by itself.
C17_ApiRequestOutcome ==
    call.made =>
        LET res == call.res
            out == call.outcome
            body == CASE res.text.form = "empty" ->
                           [type |-> "object", detail |-> JUndefined,
                            message |-> JUndefined, access_token |-> JUndefined,
                            rows |-> <<>>]
                      [] res.text.form = "json" -> res.text.value
                      [] OTHER ->
                           [type |-> "object", detail |-> JStr(res.text.raw),
                            message |-> JUndefined, access_token |-> JUndefined,
                            rows |-> <<>>]
        IN /\ ~out.threw <=> (res.transport = "ok" /\ res.ok)
           /\ ~out.threw => out.data = body
           /\ (res.transport = "ok" /\ ~res.ok) =>
                  out.message =
                      (IF IsTruthy(body.detail) THEN MessageText(body.detail)
                       ELSE IF IsTruthy(body.message) THEN MessageText(body.message)
                       ELSE GenericRequestError)
           /\ (res.transport = "ok" /\ res.ok /\ res.text.form = "raw") => ~out.threw

\* a failed status whose body has an empty detail and a message that is a number:
\* the error carries the digits of the message
C17_Witness ==
    /\ call.made
    /\ call.res.transport = "ok"
    /\ ~call.res.ok
    /\ call.res.text.form = "json"
    /\ call.res.text.value.detail = JUndefined
    /\ call.res.text.value.message = JNum(7)
    /\ call.outcome.threw
    /\ call.outcome.message = "7"

(***************************************************************************)
(* Sorting.                                                                *)
(***************************************************************************)
\* the two lists hold the same elements, each as many times
SameElements(x, y) ==
    /\ Len(x) = Len(y)
    /\ \A e \in {x[i] : i \in 1..Len(x)} \cup {y[i] : i \in 1..Len(y)} :
          Cardinality({i \in 1..Len(x) : x[i] = e})
              = Cardinality({i \in 1..Len(y) : y[i] = e})

\* the number a price counts as: its numeric parse, 0 when missing or no number
PriceNumber(film) ==
    IF film.price.t \in {"null", "undefined"} THEN 0
    ELSE IF parseFloat(Chars(film.price)).nan THEN 0
    ELSE parseFloat(Chars(film.price)).n

\* the text a field counts as: lower case, empty when missing
FieldText(film, field) ==
    IF film[field].t \in {"null", "undefined"} THEN <<>>
    ELSE [i \in 1..Len(Chars(film[field])) |->
            CASE Chars(film[field])[i] = "A" -> "a"
              [] Chars(film[field])[i] = "B" -> "b"
              [] Chars(film[field])[i] = "T" -> "t"
              [] OTHER -> Chars(film[field])[i]]

\* C18: sortFilms(list, 'price') returns the elements of list, each as many times,
\* in non-decreasing order of the number their price counts as, and leaves the list
\* it was given, the cached list included, as it was.
C18_SortByPrice ==
    (call.made /\ call.field = "price") =>
        LET returned == call.outcome.returned
        IN /\ SameElements(returned, call.films)
           /\ \A i, j \in 1..Len(returned) :
                 i < j => PriceNumber(returned[i]) <= PriceNumber(returned[j])
           /\ call.outcome.films = call.films
           /\ allFilmsCache.rows = call.films

\* a list whose prices were out of order, one of them missing, was sorted by price
C18_Witness ==
    /\ call.made
    /\ call.field = "price"
    /\ Len(call.films) = MaxSortLen
    /\ call.outcome.returned # call.films
    /\ \E i \in 1..Len(call.films) : call.films[i].price = JUndefined
    /\ \E i \in 1..Len(call.films) : call.films[i].price = JStr("20")
    /\ call.outcome.returned[Len(call.films)].price = JStr("20")

\* C19: for title and author sortFilms returns the records in non-decreasing
\* lexicographic order of the lower-cased field, a missing field counting as the
\* empty text; and for every field, price included, sorting what sortFilms returned
\* returns it in the same order.
C19_SortByTextIdempotent ==
    call.made =>
        LET returned == call.outcome.returned
        IN /\ call.field # "price" =>
                 \A i, j \in 1..Len(returned) :
                     i < j => ~LessThan(FieldText(returned[j], call.field),
                                        FieldText(returned[i], call.field))
           /\ sortFilms(returned, call.field).returned = returned

\* a list with the title B before the title a was sorted by title: a comes first
C19_Witness ==
    /\ call.made
    /\ call.field = "title"
    /\ Len(call.films) >= 2
    /\ call.films[1].title = JStr("B")
    /\ call.films[2].title = JStr("a")
    /\ call.outcome.returned[1].title = JStr("a")

(***************************************************************************)
(* The glyphs.                                                             *)
(***************************************************************************)
\* the cards renderMovies has built
RenderedCards ==
    {allMoviesSection[i] : i \in 1..Len(allMoviesSection)}
    \cup {randomMoviesSection[i] : i \in 1..Len(randomMoviesSection)}

\* C20: in every state where no toggle awaits its response, on every card that
\* renderMovies built, the cart button shows the remove glyph exactly if the id of
\* the card is in the cart, and the bookmark button shows it exactly if the id is
\* in the bookmarks.
C20_GlyphsMatchCollections ==
    pending = <<>> =>
        \A card \in RenderedCards :
            /\ (card.cartBtn = GlyphRemove) <=> (Count(cart, card.dataId) > 0)
            /\ (card.bookmarkBtn = GlyphRemove) <=> (Count(bookmarks, card.dataId) > 0)


(***************************************************************************)
(* The image source.                                                       *)
(***************************************************************************)
DataPrefix == <<"d", "a", "t", "a", ":">>

\* the path the static table gives a title: of the entry with exactly this title,
\* else of the first entry equal to it when case is ignored, else the placeholder
TablePath(title) ==
    LET exact == {i \in 1..Len(titleMapping) : titleMapping[i][1] = title.s}
        folded == {i \in 1..Len(titleMapping) :
                      toLowerCase(Chars(JStr(titleMapping[i][1])))
                          = toLowerCase(Chars(title))}
    IN IF exact # {} THEN titleMapping[CHOOSE i \in exact : TRUE][2]
       ELSE IF folded # {}
            THEN titleMapping[CHOOSE i \in folded : \A j \in folded : i <= j][2]
            ELSE PlaceholderPath

HasPayload(film) == film.movie_base64.t = "string" /\ film.movie_base64.s # ""

\* C21: the image of the card renderMovies builds for a film is, when the film has
\* a payload that does not start with 'data:', the text 'data:image/jpeg;base64,'
\* followed by the payload; when the payload starts with 'data:image/', the payload
\* itself; and when the film has no payload, the path of the table entry with
\* exactly its title, else of the entry equal to it when case is ignored, else the
\* path of the placeholder.
C21_ImageSource ==
    call.made =>
        LET film == call.film
            src == call.outcome
        IN /\ (HasPayload(film) /\ ~startsWith(Chars(film.movie_base64), DataPrefix))
                  => src = DataSrc(DefaultPrefix \o Chars(film.movie_base64))
           /\ (HasPayload(film) /\ startsWith(Chars(film.movie_base64), DataImagePrefix))
                  => src = DataSrc(Chars(film.movie_base64))
           /\ ~HasPayload(film) => src = StaticSrc(TablePath(film.title))

\* the same for films whose title names no property inherited from Object.prototype
C21_ImageSourceOwnTitles ==
    (call.made /\ call.film.title.s \notin ObjectPrototype) => C21_ImageSource

\* a film without payload whose title is 'alien' was rendered with the path of Alien
C21_Witness ==
    /\ call.made
    /\ ~HasPayload(call.film)
    /\ call.film.title = JStr("alien")
    /\ call.outcome = StaticSrc("/images_for_movies/alien.jpg")

(***************************************************************************)
(* Toggles in progress.                                                    *)
(***************************************************************************)
\* C22: no two toggles of the same collection and the same movie id wait for their
\* server responses at the same time.
C22_OneToggleInProgress ==
    \A i, j \in 1..Len(pending) :
        (/\ pending[i].kind = pending[j].kind
         /\ String(pending[i].movie.id) = String(pending[j].movie.id)) => i = j

(***************************************************************************)
(* The two fetches of the page load.                                       *)
(***************************************************************************)
BothFetchesWaiting == \A kind \in Kinds : fetchPC[kind] = "waiting"

\* C23: while both fetches of the page load wait, for every pair of responses the
\* two lists and the storage end the same whichever response is handled first, and
\* when one fetch fails they end as the other fetch alone leaves them.
C23_FetchesIndependent ==
    BothFetchesWaiting =>
        \A rc, rb \in FetchResponses :
            LET cartAlone == fetchResult("cart", rc, Page)
                bookmarksAlone == fetchResult("bookmarks", rb, Page)
                cartFirst == fetchResult("bookmarks", rb, cartAlone)
                bookmarksFirst == fetchResult("cart", rc, bookmarksAlone)
            IN /\ cartFirst = bookmarksFirst
               /\ ~FetchUsable(rb) => cartFirst = cartAlone
               /\ ~FetchUsable(rc) => cartFirst = bookmarksAlone

\* both fetches are done, the one of the bookmarks failed last, and the cart and
\* its snapshot hold the list the server sent
C23_Witness ==
    /\ \A kind \in Kinds : fetchPC[kind] = "done"
    /\ last.op = "fetch" /\ last.kind = "bookmarks" /\ last.result = "failed"
    /\ clicks = 0
    /\ Len(cart) = NumFilms
    /\ localStorage.cart = JSONstringify(cart)
    /\ bookmarks = <<>>

(***************************************************************************)
(* The requests of the toggles.                                            *)
(***************************************************************************)
\* C24: the step that handles a click on a cart or bookmark button hands fetch
\* exactly one request, the POST of the button's collection when the toggle adds
\* and the DELETE of the movie in that collection when it removes; and no other
\* step, the one that handles a failed response included, hands fetch a POST or a
\* DELETE.
C24_OneRequestPerClick ==
    /\ last.op = "click" =>
          /\ Len(issued) = 1
          /\ last.branch = "add" =>
                /\ issued[1].method = "POST"
                /\ issued[1].path = "/" \o last.kind
          /\ last.branch = "remove" =>
                /\ issued[1].method = "DELETE"
                /\ issued[1].path = "/" \o last.kind \o "/" \o String(last.id)
    /\ last.op # "click" => \A i \in 1..Len(issued) : issued[i].method = "GET"
    /\ last.op = "toggle" => issued = <<>>

\* the add request of a bookmark toggle has failed and no request was issued again
C24_Witness ==
    /\ ToggleFailed
    /\ last.kind = "bookmarks"
    /\ last.branch = "add"
    /\ issued = <<>>
    /\ pending = <<>>

(***************************************************************************)
(* A change of the sort order.                                             *)
(***************************************************************************)
\* the cached film a card of the section shows
CachedFilm(card) ==
    CHOOSE film \in {allFilmsCache.rows[i] : i \in 1..Len(allFilmsCache.rows)} :
        String(OrElse(film.id, film.flim_id)) = card.dataId.s

\* whether film x may stand before film y in the order of field
InOrder(x, y, field) ==
    IF field = "price" THEN PriceNumber(x) <= PriceNumber(y)
    ELSE ~LessThan(FieldText(y, field), FieldText(x, field))

\* C25: a change of the sort selection hands fetch no request and leaves
\* allFilmsCache, the section of random films, the cart, the bookmarks and the
\* storage as they were; the section of all films then shows one card for each
\* cached film, the cards being those renderMovies builds for the cached films put
\* in the order of the selected field.
C25_SortChangesOnlyAllMovies ==
    [][last'.op = "sort" =>
         /\ issued' = <<>>
         /\ UNCHANGED <<allFilmsCache, randomMoviesSection, cart, bookmarks,
                        localStorage, fetchPC, moviesPC>>
         /\ \A field \in SortFields :
               last'.id.s = field =>
                   LET shown == [i \in 1..Len(allMoviesSection') |->
                                    CachedFilm(allMoviesSection'[i])]
                   IN /\ SameElements(shown, allFilmsCache.rows)
                      /\ allMoviesSection' = renderMovies(shown)
                      /\ \A i, j \in 1..Len(shown) :
                            i < j => InOrder(shown[i], shown[j], field)]_vars

\* the films were cached in the order the server sent them, the dearest first, and
\* after a change to the order by price the section shows the cheapest first
C25_Witness ==
    /\ last.op = "sort"
    /\ last.id = JStr("price")
    /\ Len(allFilmsCache.rows) = NumFilms
    /\ allFilmsCache.rows[1].id = JNum(NumFilms)
    /\ allMoviesSection[1].dataId = JStr("1")
    /\ Len(cart) > 0

(***************************************************************************)
(* The entries of other movies.                                            *)
(***************************************************************************)
\* the entries of list whose id has not the text of id, in their order
Others(list, id) ==
    LET other(item) == String(item.id) # String(id)
    IN SelectSeq(list, other)

\* C26: the step that finishes a toggle for a movie id leaves the entries of every
\* other id in the cart and in the bookmarks as they were, in their order.
C26_ToggleKeepsOtherEntries ==
    [][last'.op = "toggle" =>
         /\ Others(cart', last'.id) = Others(cart, last'.id)
         /\ Others(bookmarks', last'.id) = Others(bookmarks, last'.id)]_vars

(***************************************************************************)
(* What an acknowledged add leaves.                                        *)
(***************************************************************************)
\* C27: while the last toggle the server acknowledged for a collection and a movie
\* id is an add, the collection holds an entry with that id and so does the stored
\* snapshot of the collection.
C27_AddedStaysUntilRemoved ==
    \A kind \in Kinds, id \in IdTexts :
        acked[kind][id] = "add" =>
            /\ Count(Collection(kind), JStr(id)) >= 1
            /\ Count(ParseOrEmpty(localStorage[kind]), JStr(id)) >= 1

(***************************************************************************)
(* The two collections side by side.                                       *)
(***************************************************************************)
OtherKind(kind) == IF kind = "cart" THEN "bookmarks" ELSE "cart"

\* C28: a step of toggleCart or fetchCartFromServer leaves the bookmarks in memory
\* as they were, a step of toggleBookmark or fetchBookmarksFromServer leaves the
\* cart in memory as it was, and after such a step the stored snapshot of the
\* collection left alone holds that collection as it is in memory.
C28_OtherCollectionUntouched ==
    [][\A kind \in Kinds :
          (last'.op \in {"toggle", "fetch"} /\ last'.kind = kind) =>
              /\ OtherKind(kind) = "cart" =>
                    /\ cart' = cart
                    /\ ParseOrEmpty(localStorage'.cart) = cart'
              /\ OtherKind(kind) = "bookmarks" =>
                    /\ bookmarks' = bookmarks
                    /\ ParseOrEmpty(localStorage'.bookmarks) = bookmarks']_vars

\* the part of C28 about the lists in memory alone
C28_OtherListUnchanged ==
    [][\A kind \in Kinds :
          (last'.op \in {"toggle", "fetch"} /\ last'.kind = kind) =>
              /\ OtherKind(kind) = "cart" => cart' = cart
              /\ OtherKind(kind) = "bookmarks" => bookmarks' = bookmarks]_vars

=============================================================================
